---- MODULE Spec2Model ----
(***************************************************************************)
(* A model of the maria recursive-descent translator.                      *)
(*                                                                         *)
(*   Spec      the statement / control-flow translator of                  *)
(*             src/src/controls.rs, driven as its test drives it:          *)
(*             Cradle::new(input) followed by do_program().                *)
(*   ExprSpec  the expression translator of src/src/cradle.rs, driven as   *)
(*             its tests drive it: Cradle::new(input) followed by          *)
(*             expression().                                               *)
(*                                                                         *)
(* The input stream is the environment: every get_char draws the next      *)
(* character (or the end of the input) nondeterministically, so that the   *)
(* reachable states cover every input of at most MaxInput characters.      *)
(* The recursion of the translator is an explicit stack of frames; an      *)
(* action is one straight-line segment of a handler, from one call of      *)
(* block (or one return from it) to the next.                              *)
(***************************************************************************)
EXTENDS Integers, Sequences, FiniteSets, TLC

VARIABLES
    look,      \* Cradle.look: the lookahead character
    inp,       \* the characters read from Cradle.input so far (the cursor is Len(inp))
    lcount,    \* Cradle.lcount: the label counter
    out,       \* the lines printed so far, in order
    stack,     \* the call stack of the translation, innermost frame last
    status,    \* "running", "done" (the driver returned) or "abort" (a panic)
    msg,       \* the panic message once status = "abort"
    last,      \* history: the operation that took the last step, and its lookahead
    ret,       \* history: the frame of the construct that returned last
    blkEnd,    \* history: the last return of block: its caller and the lookahead
    nops       \* history: the operators the expression translator has matched

vars == <<look, inp, lcount, out, stack, status, msg, last, ret, blkEnd, nops>>

\* The longest input of the statement translator, in characters.
MaxInput == 6

\* The longest input of the expression translator, in characters.
MaxExprInput == 5

\* The end of the input: bytes().next() yields None.
EOF == "EOF"

\* The panic of get_char's unwrap() on None.
NoInput == "called Option::unwrap() on a None value"

\* The characters the inputs of the statement translator are drawn from.
Letters == {"x", "i", "w", "p", "r", "f", "d", "b", "e", "l", "u"}

CtlChars == Letters \cup {"="}

\* The names the constructor's other() is tried on.
FirstChars == {"x"}

\* The characters the inputs of the expression translator are drawn from.
ExprChars == {"1", "2", "x", "+", "-", "*", "/", "(", ")", " "}

IsAlphabetic(c) == c \in Letters

IsDigit(c) == c \in {"0", "1", "2", "3", "4", "5", "6", "7", "8", "9"}

IsAlphanumeric(c) == IsAlphabetic(c) \/ IsDigit(c)

\* is_white: TAB or SPACE.
IsWhite(c) == c \in {"\t", " "}

IsAddop(c) == c \in {"+", "-"}

IsMulop(c) == c \in {"*", "/"}

Upper(c) ==
    CASE c = "x" -> "X" [] c = "i" -> "I" [] c = "w" -> "W" [] c = "p" -> "P"
      [] c = "r" -> "R" [] c = "f" -> "F" [] c = "d" -> "D" [] c = "b" -> "B"
      [] c = "e" -> "E" [] c = "l" -> "L" [] c = "u" -> "U"
      [] OTHER -> c

\* What get_char can return next: a character while the input has one, else None.
Stream == IF Len(inp) < MaxInput THEN CtlChars \cup {EOF} ELSE {EOF}

\* A printed line: emitln prints a tab, the text and a line break; post_label
\* prints the label, a colon and a line break.  op is the mnemonic (or the
\* label) and arg the formatted operand.
Emitln(op, arg) == [tab |-> TRUE, op |-> op, arg |-> arg]

PostLabel(label) == [tab |-> FALSE, op |-> label, arg |-> ":"]

\* new_label: the text of the label for counter value n, and the counter after it.
NewLabel(n) == "L" \o ToString(n)

\* A new_label that does not advance the counter.
NextCountStuck(n) == n

NextCount(n) == n + 1

\* A block that ends on 'e' alone.
IsTerminatorEndOnly(c) == c = "e"

\* block's loop condition: the lookahead ends the block.
IsTerminator(c) == c \in {"e", "l", "u"}

\* A frame of the call stack.  fn is the function, pc the place it waits at,
\* arg the break target it received, blk the break target it passed to the
\* block it is in, l1 and l2 its labels, name the loop variable of do_for.
\* The remaining fields are history: at = Len(out) on entry, b1s/b1e and
\* b2s/b2e = Len(out) as the first and the second block it called started and
\* ended, end = Len(out) on return, lc0 = lcount on entry, lcb = lcount as the
\* first block started, lc1 = lcount as the first block ended, lc2 = lcount
\* as the second block started, lce = lcount on return, blk1 and blk2 the
\* break targets passed to the first and the second block, hasElse whether
\* do_if took its else part, p1 = Len(inp) as the last block ended, p2 =
\* Len(inp) on return.  In the expression translator tok is the
\* token a recognizer builds or has returned to the frame, and ops = nops on
\* entry (in ret: the operators matched during the call).
Frame ==
    [fn |-> "none", pc |-> "none", arg |-> "", blk |-> "", l1 |-> "", l2 |-> "",
     name |-> "", at |-> 0, b1s |-> 0, b1e |-> 0, b2s |-> 0, b2e |-> 0,
     end |-> 0, lc0 |-> 0, lcb |-> 0, lc1 |-> 0, lc2 |-> 0, lce |-> 0,
     blk1 |-> "", blk2 |-> "", hasElse |-> FALSE,
     p1 |-> 0, p2 |-> 0, tok |-> "", ops |-> 0]

NoBlock == [caller |-> "none", look |-> ""]

Running == status = "running"

Top == stack[Len(stack)]

Pop == SubSeq(stack, 1, Len(stack) - 1)

BlockPcs == {"block", "then", "else", "body"}

\* block is running in the innermost frame and its loop dispatches on c.
Dispatch(c) ==
    /\ Running
    /\ Len(stack) > 0
    /\ Top.pc \in BlockPcs
    /\ ~IsTerminator(look)
    /\ look = c

\* block returns to the innermost frame, which is fn waiting at pc.
BlockReturns(fn, pc) ==
    /\ Running
    /\ Len(stack) > 0
    /\ Top.fn = fn
    /\ Top.pc = pc
    /\ IsTerminator(look)

\* A panic: the translation stops where it is; the lines printed stay.
Abort(op, m) ==
    /\ status' = "abort"
    /\ msg' = m
    /\ last' = [op |-> op, look |-> look]
    /\ UNCHANGED <<look, inp, lcount, out, stack, ret, nops>>

\* A segment whose match_char or get_name leaves the lookahead and the cursor
\* where they were.
StepNoRead(op, c, lines, stk, lc) ==
    /\ out' = out \o lines
    /\ stack' = stk
    /\ lcount' = lc
    /\ last' = [op |-> op, look |-> look]
    /\ UNCHANGED <<look, inp, status, msg, nops>>

\* A segment that read character c, printed lines, left the stack as stk and
\* the label counter as lc.
Step(op, c, lines, stk, lc) ==
    /\ look' = c
    /\ inp' = Append(inp, c)
    /\ out' = out \o lines
    /\ stack' = stk
    /\ lcount' = lc
    /\ last' = [op |-> op, look |-> look]
    /\ UNCHANGED <<status, msg, nops>>

(***************************************************************************)
(* Cradle::new and do_program                                              *)
(***************************************************************************)

\* After Cradle::new: the first character was read and other() consumed it as
\* a name, printed it and read the second.  do_program has called block("").
Init ==
    \E c0 \in FirstChars, c1 \in CtlChars :
        /\ look = c1
        /\ inp = <<c0, c1>>
        /\ lcount = 0
        /\ out = <<Emitln(Upper(c0), "")>>
        /\ stack = <<[Frame EXCEPT !.fn = "do_program", !.pc = "block", !.at = 1, !.b1s = 1]>>
        /\ status = "running"
        /\ msg = ""
        /\ last = [op |-> "new", look |-> c0]
        /\ ret = Frame
        /\ blkEnd = NoBlock
        /\ nops = 0

\* do_program after block("") returned.
DoProgramEnd ==
    /\ BlockReturns("do_program", "block")
    /\ blkEnd' = [caller |-> "do_program", look |-> look]
    /\ IF look # "e"
       THEN Abort("do_program:end", "End Expected")
       ELSE /\ out' = Append(out, Emitln("END", ""))
            /\ stack' = <<>>
            /\ status' = "done"
            /\ last' = [op |-> "do_program:end", look |-> look]
            /\ ret' = [Top EXCEPT !.b1e = Len(out), !.end = Len(out) + 1,
                                  !.lc1 = lcount, !.lce = lcount,
                                  !.p1 = Len(inp), !.p2 = Len(inp)]
            /\ UNCHANGED <<look, inp, lcount, msg, nops>>

(***************************************************************************)
(* The statements block dispatches                                         *)
(***************************************************************************)

\* The statement letters block has an arm for.
Keywords == {"i", "w", "p", "r", "f", "d", "b"}

\* other (the fallback arm of block): get_name and print the name.
Other ==
    /\ Dispatch(look)
    /\ look \notin Keywords
    /\ UNCHANGED <<ret, blkEnd>>
    /\ IF ~IsAlphabetic(look)
       THEN Abort("other", "Name Expected")
       ELSE \E c \in Stream :
              IF c = EOF THEN Abort("other", NoInput)
              ELSE Step("other", c, <<Emitln(Upper(look), "")>>, stack, lcount)

\* do_break: match 'b', then jump to the break target block was given.
BreakLines(label) == <<Emitln("BRA", label)>>

DoBreak ==
    /\ Dispatch("b")
    /\ UNCHANGED <<ret, blkEnd>>
    /\ \E c \in Stream :
        IF c = EOF THEN Abort("do_break", NoInput)
        ELSE IF Top.blk # ""
             THEN Step("do_break", c, BreakLines(Top.blk), stack, lcount)
             ELSE \* match_char has read c before the panic
                  /\ look' = c
                  /\ inp' = Append(inp, c)
                  /\ status' = "abort"
                  /\ msg' = "No loop to break from"
                  /\ last' = [op |-> "do_break", look |-> look]
                  /\ UNCHANGED <<lcount, out, stack, nops>>

(***************************************************************************)
(* do_if                                                                   *)
(***************************************************************************)

\* A do_if that passes its own end label down as the break target.
IfBlockLabelOwn(label, label1, label2) == label2

\* The break target do_if passes to its then-block and to its else-block.
IfBlockLabel(label, label1, label2) == label

\* do_if up to its first call of block.
DoIf ==
    /\ Dispatch("i")
    /\ UNCHANGED <<ret, blkEnd>>
    /\ \E c \in Stream :
        IF c = EOF THEN Abort("do_if", NoInput)
        ELSE LET label1 == NewLabel(lcount)
                 lines == <<Emitln("<condition>", ""), Emitln("BEQ", label1)>>
                 f == [Frame EXCEPT !.fn = "do_if", !.pc = "then", !.arg = Top.blk,
                                    !.blk = IfBlockLabel(Top.blk, label1, label1),
                                    !.blk1 = IfBlockLabel(Top.blk, label1, label1),
                                    !.l1 = label1, !.l2 = label1,
                                    !.at = Len(out), !.b1s = Len(out) + Len(lines),
                                    !.lc0 = lcount, !.lcb = NextCount(lcount)]
             IN  Step("do_if", c, lines, Append(stack, f), NextCount(lcount))

\* do_if after the then-block, when the lookahead is 'l': the else part up to
\* the second call of block.
\* A do_if that places label1 before the jump over the else part.
IfElseLinesSwapped(label1, label2) == <<PostLabel(label1), Emitln("BRA", label2)>>

IfElseLines(label1, label2) == <<Emitln("BRA", label2), PostLabel(label1)>>

DoIfElse ==
    /\ BlockReturns("do_if", "then")
    /\ look = "l"
    /\ blkEnd' = [caller |-> "do_if:then", look |-> look]
    /\ ret' = ret
    /\ \E c \in Stream :
        IF c = EOF THEN Abort("do_if:else", NoInput)
        ELSE LET label2 == NewLabel(lcount)
                 lines == IfElseLines(Top.l1, label2)
                 f == [Top EXCEPT !.pc = "else", !.l2 = label2, !.hasElse = TRUE,
                                  !.blk2 = IfBlockLabel(Top.arg, Top.l1, label2),
                                  !.blk = IfBlockLabel(Top.arg, Top.l1, label2),
                                  !.b1e = Len(out), !.lc1 = lcount,
                                  !.b2s = Len(out) + Len(lines),
                                  !.lc2 = NextCount(lcount)]
             IN  Step("do_if:else", c, lines, Append(Pop, f), NextCount(lcount))

\* do_if from match_char('e') on: after the then-block when no 'l' follows,
\* or after the else-block.
DoIfEnd ==
    /\ \/ BlockReturns("do_if", "then") /\ look # "l"
       \/ BlockReturns("do_if", "else")
    /\ blkEnd' = [caller |-> IF Top.pc = "then" THEN "do_if:then" ELSE "do_if:else",
                  look |-> look]
    /\ IF look # "e"
       THEN Abort("do_if:end", "e Expected")
       ELSE \E c \in Stream :
              IF c = EOF THEN Abort("do_if:end", NoInput)
              ELSE /\ Step("do_if:end", c, <<PostLabel(Top.l2)>>, Pop, lcount)
                   /\ ret' = IF Top.pc = "then"
                             THEN [Top EXCEPT !.b1e = Len(out), !.lc1 = lcount,
                                              !.end = Len(out) + 1, !.lce = lcount,
                                              !.p1 = Len(inp), !.p2 = Len(inp) + 1]
                             ELSE [Top EXCEPT !.b2e = Len(out),
                                              !.end = Len(out) + 1, !.lce = lcount,
                                              !.p1 = Len(inp), !.p2 = Len(inp) + 1]

(***************************************************************************)
(* The loops                                                               *)
(***************************************************************************)

\* A loop's frame as it calls block with its exit label l2.
LoopFrame(fn, l1, l2, nlines) ==
    [Frame EXCEPT !.fn = fn, !.pc = "body", !.arg = Top.blk, !.blk = l2,
                  !.blk1 = l2, !.l1 = l1, !.l2 = l2, !.at = Len(out),
                  !.b1s = Len(out) + nlines, !.lc0 = lcount,
                  !.lcb = NextCount(NextCount(lcount))]

\* A loop's frame as it returns, having read n characters after its block.
Returned(n, nlines) ==
    [Top EXCEPT !.b1e = Len(out), !.lc1 = lcount, !.end = Len(out) + nlines,
                !.lce = lcount, !.p1 = Len(inp), !.p2 = Len(inp) + n]

\* do_while up to its call of block.
WhileHead(l1, l2) == <<PostLabel(l1), Emitln("<condition>", ""), Emitln("BEQ", l2)>>

DoWhile ==
    /\ Dispatch("w")
    /\ UNCHANGED <<ret, blkEnd>>
    /\ \E c \in Stream :
        IF c = EOF THEN Abort("do_while", NoInput)
        ELSE LET l1 == NewLabel(lcount)
                 l2 == NewLabel(NextCount(lcount))
                 lines == WhileHead(l1, l2)
             IN  Step("do_while", c, lines,
                      Append(stack, LoopFrame("do_while", l1, l2, Len(lines))),
                      NextCount(NextCount(lcount)))

\* A do_while that ends with the jump and the label swapped.
WhileTailSwapped(l1, l2) == <<PostLabel(l2), Emitln("BRA", l1)>>

\* do_while after its block.
WhileTail(l1, l2) == <<Emitln("BRA", l1), PostLabel(l2)>>

DoWhileEnd ==
    /\ BlockReturns("do_while", "body")
    /\ blkEnd' = [caller |-> "do_while", look |-> look]
    /\ IF look # "e"
       THEN Abort("do_while:end", "e Expected")
       ELSE \E c \in Stream :
              IF c = EOF THEN Abort("do_while:end", NoInput)
              ELSE LET lines == WhileTail(Top.l1, Top.l2)
                   IN  /\ Step("do_while:end", c, lines, Pop, lcount)
                       /\ ret' = Returned(1, Len(lines))

\* do_loop up to its call of block.
DoLoop ==
    /\ Dispatch("p")
    /\ UNCHANGED <<ret, blkEnd>>
    /\ \E c \in Stream :
        IF c = EOF THEN Abort("do_loop", NoInput)
        ELSE LET l1 == NewLabel(lcount)
                 l2 == NewLabel(NextCount(lcount))
                 lines == <<PostLabel(l1)>>
             IN  Step("do_loop", c, lines,
                      Append(stack, LoopFrame("do_loop", l1, l2, Len(lines))),
                      NextCount(NextCount(lcount)))

\* A do_loop that jumps to its exit label.
LoopTailToExit(l1, l2) == <<Emitln("BRA", l2), PostLabel(l2)>>

\* do_loop after its block.
LoopTail(l1, l2) == <<Emitln("BRA", l1), PostLabel(l2)>>

DoLoopEnd ==
    /\ BlockReturns("do_loop", "body")
    /\ blkEnd' = [caller |-> "do_loop", look |-> look]
    /\ IF look # "e"
       THEN Abort("do_loop:end", "e Expected")
       ELSE \E c \in Stream :
              IF c = EOF THEN Abort("do_loop:end", NoInput)
              ELSE LET lines == LoopTail(Top.l1, Top.l2)
                   IN  /\ Step("do_loop:end", c, lines, Pop, lcount)
                       /\ ret' = Returned(1, Len(lines))

\* do_repeat up to its call of block.
DoRepeat ==
    /\ Dispatch("r")
    /\ UNCHANGED <<ret, blkEnd>>
    /\ \E c \in Stream :
        IF c = EOF THEN Abort("do_repeat", NoInput)
        ELSE LET l1 == NewLabel(lcount)
                 l2 == NewLabel(NextCount(lcount))
                 lines == <<PostLabel(l1)>>
             IN  Step("do_repeat", c, lines,
                      Append(stack, LoopFrame("do_repeat", l1, l2, Len(lines))),
                      NextCount(NextCount(lcount)))

\* do_repeat after its block.
DoRepeatEnd ==
    /\ BlockReturns("do_repeat", "body")
    /\ blkEnd' = [caller |-> "do_repeat", look |-> look]
    /\ IF look # "u"
       THEN Abort("do_repeat:end", "u Expected")
       ELSE \E c \in Stream :
              IF c = EOF THEN Abort("do_repeat:end", NoInput)
              ELSE LET lines == <<Emitln("<condition>", ""), Emitln("BEQ", Top.l1),
                                  PostLabel(Top.l2)>>
                   IN  /\ Step("do_repeat:end", c, lines, Pop, lcount)
                       /\ ret' = Returned(1, Len(lines))

\* do_for: match 'f' and take the two labels.
DoFor ==
    /\ Dispatch("f")
    /\ UNCHANGED <<ret, blkEnd>>
    /\ \E c \in Stream :
        IF c = EOF THEN Abort("do_for", NoInput)
        ELSE LET l1 == NewLabel(lcount)
                 l2 == NewLabel(NextCount(lcount))
                 f == [Frame EXCEPT !.fn = "do_for", !.pc = "name", !.arg = Top.blk,
                                    !.l1 = l1, !.l2 = l2, !.at = Len(out),
                                    !.lc0 = lcount]
             IN  Step("do_for", c, <<>>, Append(stack, f), NextCount(NextCount(lcount)))

\* do_for: get_name.
DoForName ==
    /\ Running
    /\ Len(stack) > 0
    /\ Top.fn = "do_for"
    /\ Top.pc = "name"
    /\ UNCHANGED <<ret, blkEnd>>
    /\ IF ~IsAlphabetic(look)
       THEN Abort("do_for:name", "Name Expected")
       ELSE \E c \in Stream :
              IF c = EOF THEN Abort("do_for:name", NoInput)
              ELSE Step("do_for:name", c, <<>>,
                        Append(Pop, [Top EXCEPT !.pc = "assign", !.name = Upper(look)]),
                        lcount)

\* do_for from match_char('=') to its call of block.  expression is the stub
\* of this file: it prints one line and reads nothing.
ForHead(name, l1, l2) ==
    <<Emitln("<expr>", ""),
      Emitln("SUBQ", "#1,D0"),
      Emitln("LEA", name \o "(PC),A0"),
      Emitln("MOVE", "DO,(A0)"),
      Emitln("<expr>", ""),
      Emitln("MOVE", "DO,-(SP)"),
      PostLabel(l1),
      Emitln("LEA", name \o "(PC),A0"),
      Emitln("MOVE", "(A0),D0"),
      Emitln("MOVE", "#1,D0"),
      Emitln("MOVE", "DO,(A0)"),
      Emitln("CMP", "(SP),(A0)"),
      Emitln("BGT", l2)>>

DoForAssign ==
    /\ Running
    /\ Len(stack) > 0
    /\ Top.fn = "do_for"
    /\ Top.pc = "assign"
    /\ UNCHANGED <<ret, blkEnd>>
    /\ IF look # "="
       THEN Abort("do_for:assign", "= Expected")
       ELSE \E c \in Stream :
              IF c = EOF THEN Abort("do_for:assign", NoInput)
              ELSE LET lines == ForHead(Top.name, Top.l1, Top.l2)
                   IN  Step("do_for:assign", c, lines,
                            Append(Pop, [Top EXCEPT !.pc = "body", !.blk = Top.l2,
                                                    !.blk1 = Top.l2, !.lcb = lcount,
                                                    !.b1s = Len(out) + Len(lines)]),
                            lcount)

\* do_for after its block.
DoForEnd ==
    /\ BlockReturns("do_for", "body")
    /\ blkEnd' = [caller |-> "do_for", look |-> look]
    /\ IF look # "e"
       THEN Abort("do_for:end", "e Expected")
       ELSE \E c \in Stream :
              IF c = EOF THEN Abort("do_for:end", NoInput)
              ELSE LET lines == <<Emitln("BRA", Top.l1), PostLabel(Top.l2),
                                  Emitln("ADDQ", "#2,SP")>>
                   IN  /\ Step("do_for:end", c, lines, Pop, lcount)
                       /\ ret' = Returned(1, Len(lines))

\* do_do up to its call of block.
DoDo ==
    /\ Dispatch("d")
    /\ UNCHANGED <<ret, blkEnd>>
    /\ \E c \in Stream :
        IF c = EOF THEN Abort("do_do", NoInput)
        ELSE LET l1 == NewLabel(lcount)
                 l2 == NewLabel(NextCount(lcount))
                 lines == <<Emitln("<expr>", ""), Emitln("SUBQ", "#1,D0"),
                            PostLabel(l1), Emitln("MOVE", "D0,-(SP)")>>
             IN  Step("do_do", c, lines,
                      Append(stack, LoopFrame("do_do", l1, l2, Len(lines))),
                      NextCount(NextCount(lcount)))

\* do_do after its block: it prints its tail and returns.  It has no
\* match_char there: it reads nothing and the lookahead that ended the block
\* stays.
DoDoEnd ==
    /\ BlockReturns("do_do", "body")
    /\ blkEnd' = [caller |-> "do_do", look |-> look]
    /\ LET lines == <<Emitln("MOVE", "(SP)+,D0"), Emitln("DBRA", "D0," \o Top.l1),
                      Emitln("SUBQ", "#2,SP"), PostLabel(Top.l2),
                      Emitln("ADDQ", "#2,SP")>>
       IN  /\ out' = out \o lines
           /\ stack' = Pop
           /\ last' = [op |-> "do_do:end", look |-> look]
           /\ ret' = Returned(0, Len(lines))
           /\ UNCHANGED <<look, inp, lcount, status, msg, nops>>

Next ==
    \/ Other
    \/ DoBreak
    \/ DoIf
    \/ DoIfElse
    \/ DoIfEnd
    \/ DoWhile
    \/ DoWhileEnd
    \/ DoLoop
    \/ DoLoopEnd
    \/ DoRepeat
    \/ DoRepeatEnd
    \/ DoFor
    \/ DoForName
    \/ DoForAssign
    \/ DoForEnd
    \/ DoDo
    \/ DoDoEnd
    \/ DoProgramEnd

Spec == Init /\ [][Next]_vars

(***************************************************************************)
(* The expression translator of cradle.rs                                  *)
(*                                                                         *)
(* The stack holds, innermost last, the functions that are active or next  *)
(* to run: a caller pushes the rest of the callee it has entered (add      *)
(* after its match_char is "add", waiting to print), what that callee      *)
(* calls next, and the skip_white that match_char ends with.               *)
(***************************************************************************)

\* What get_char can return next in the expression translator.
ExprStream == IF Len(inp) < MaxExprInput THEN ExprChars \cup {EOF} ELSE {EOF}

F(fn, pc) == [Frame EXCEPT !.fn = fn, !.pc = pc]

\* The frame of a call of expression or term entered now.
Call(fn) == [Frame EXCEPT !.fn = fn, !.pc = "start", !.at = Len(out), !.ops = nops]

\* The innermost frame is fn waiting at pc.
At(fn, pc) ==
    /\ Running
    /\ Len(stack) > 0
    /\ Top.fn = fn
    /\ Top.pc = pc

\* A panic after lines were printed.
ExprAbort(op, lines, m) ==
    /\ status' = "abort"
    /\ msg' = m
    /\ out' = out \o lines
    /\ last' = [op |-> op, look |-> look]
    /\ UNCHANGED <<look, inp, lcount, stack, ret, blkEnd, nops>>

\* A segment that printed lines, then read character c, and left the stack as stk.
ExprRead(op, c, lines, stk) ==
    /\ look' = c
    /\ inp' = Append(inp, c)
    /\ out' = out \o lines
    /\ stack' = stk
    /\ last' = [op |-> op, look |-> look]
    /\ UNCHANGED <<status, msg, lcount, blkEnd>>

\* A segment that printed lines, read nothing, and left the stack as stk.
ExprStep(op, lines, stk) ==
    /\ out' = out \o lines
    /\ stack' = stk
    /\ last' = [op |-> op, look |-> look]
    /\ status' = IF stk = <<>> THEN "done" ELSE status
    /\ UNCHANGED <<look, inp, msg, lcount, blkEnd>>

\* After Cradle::new (get_char, skip_white): the lookahead is the first
\* character that is not white.  The driver has called expression().
ExprInit ==
    \E c \in ExprChars :
        /\ ~IsWhite(c)
        /\ look = c
        /\ inp = <<c>>
        /\ lcount = 0
        /\ out = <<>>
        /\ stack = <<[Frame EXCEPT !.fn = "expression", !.pc = "start"]>>
        /\ status = "running"
        /\ msg = ""
        /\ last = [op |-> "new", look |-> c]
        /\ ret = Frame
        /\ blkEnd = NoBlock
        /\ nops = 0

\* skip_white: one turn of its loop, or its return.
SkipWhite ==
    /\ At("skip_white", "loop")
    /\ UNCHANGED <<ret, nops>>
    /\ IF IsWhite(look)
       THEN \E c \in ExprStream :
              IF c = EOF THEN ExprAbort("skip_white", <<>>, NoInput)
              ELSE ExprRead("skip_white", c, <<>>, stack)
       ELSE ExprStep("skip_white", <<>>, Pop)

\* The line that pushes the accumulator (expression's and term's loops).
PushLine == Emitln("MOVE", "D0,-(SP)")

\* expression up to its loop.
Expression ==
    /\ At("expression", "start")
    /\ UNCHANGED <<ret, nops>>
    /\ IF IsAddop(look)
       THEN ExprStep("expression", <<Emitln("CLR", "D0")>>,
                     Append(Pop, [Top EXCEPT !.pc = "loop"]))
       ELSE ExprStep("expression", <<>>,
                     Append(Pop, [Top EXCEPT !.pc = "loop"]) \o <<Call("term")>>)

\* The frame of expression or term as it returns.
ExprReturned == [Top EXCEPT !.end = Len(out), !.ops = nops - Top.ops]

\* expression's loop: a turn up to add's or subtract's call of term (the
\* push, then match_char on the operator), or the return.
ExpressionLoop ==
    /\ At("expression", "loop")
    /\ IF IsAddop(look)
       THEN /\ ret' = ret
            /\ \E c \in ExprStream :
                 IF c = EOF
                 THEN /\ ExprAbort("expression", <<PushLine>>, NoInput)
                 ELSE /\ ExprRead("expression", c, <<PushLine>>,
                                  stack \o <<F(IF look = "+" THEN "add" ELSE "subtract", "emit"),
                                             [Call("term") EXCEPT !.at = Len(out) + 1,
                                                                  !.ops = nops + 1],
                                             F("skip_white", "loop")>>)
                      /\ nops' = nops + 1
       ELSE /\ ExprStep("expression", <<>>, Pop)
            /\ ret' = ExprReturned
            /\ nops' = nops

\* add after term returned.
AddLines == <<Emitln("ADD", "(SP)+,D0")>>

Add ==
    /\ At("add", "emit")
    /\ UNCHANGED <<ret, nops>>
    /\ ExprStep("add", AddLines, Pop)

\* subtract after term returned.
SubtractLines == <<Emitln("SUB", "(SP)+,D0"), Emitln("NEG", "D0")>>

Subtract ==
    /\ At("subtract", "emit")
    /\ UNCHANGED <<ret, nops>>
    /\ ExprStep("subtract", SubtractLines, Pop)

\* term up to its loop: the call of factor.
Term ==
    /\ At("term", "start")
    /\ UNCHANGED <<ret, nops>>
    /\ ExprStep("term", <<>>,
                Append(Pop, [Top EXCEPT !.pc = "loop"]) \o <<F("factor", "start")>>)

\* term's loop: a turn up to multiply's or divide's call of factor, or the
\* return.
TermLoop ==
    /\ At("term", "loop")
    /\ IF IsMulop(look)
       THEN /\ ret' = ret
            /\ \E c \in ExprStream :
                 IF c = EOF
                 THEN /\ ExprAbort("term", <<PushLine>>, NoInput)
                 ELSE /\ ExprRead("term", c, <<PushLine>>,
                                  stack \o <<F(IF look = "*" THEN "multiply" ELSE "divide", "emit"),
                                             F("factor", "start"),
                                             F("skip_white", "loop")>>)
                      /\ nops' = nops + 1
       ELSE /\ ExprStep("term", <<>>, Pop)
            /\ ret' = ExprReturned
            /\ nops' = nops

\* A multiply that combines without popping the operand.
MultiplyLinesNoPop == <<Emitln("MULS", "D1,D0")>>

\* multiply after factor returned.
MultiplyLines == <<Emitln("MULS", "(SP)+,D0")>>

Multiply ==
    /\ At("multiply", "emit")
    /\ UNCHANGED <<ret, nops>>
    /\ ExprStep("multiply", MultiplyLines, Pop)

\* divide after factor returned.
DivideLines == <<Emitln("MOVE", "(SP)+,D1"), Emitln("DIVS", "D1,D0")>>

Divide ==
    /\ At("divide", "emit")
    /\ UNCHANGED <<ret, nops>>
    /\ ExprStep("divide", DivideLines, Pop)

\* factor up to the call it makes: expression after match_char('('), ident's
\* get_name, or get_num.
Factor ==
    /\ At("factor", "start")
    /\ UNCHANGED <<ret, nops>>
    /\ IF look = "("
       THEN \E c \in ExprStream :
              IF c = EOF THEN ExprAbort("factor", <<>>, NoInput)
              ELSE ExprRead("factor", c, <<>>,
                            Pop \o <<F("factor", "close"), Call("expression"),
                                     F("skip_white", "loop")>>)
       ELSE IF IsAlphabetic(look)
       THEN ExprStep("factor", <<>>, Pop \o <<F("ident", "name"), F("get_name", "loop")>>)
       ELSE IF ~IsDigit(look)
       THEN ExprAbort("factor", <<>>, "Integer Expected")
       ELSE ExprStep("factor", <<>>, Pop \o <<F("factor", "num"), F("get_num", "loop")>>)

\* The frames below a recognizer once it has returned token t to its caller
\* and only its skip_white is left to run.
Recognized(t) ==
    SubSeq(stack, 1, Len(stack) - 2)
        \o <<[stack[Len(stack) - 1] EXCEPT !.tok = t], F("skip_white", "loop")>>

\* get_name: one turn of its loop, or the end of the loop.
GetName ==
    /\ At("get_name", "loop")
    /\ UNCHANGED <<ret, nops>>
    /\ IF IsAlphanumeric(look)
       THEN \E c \in ExprStream :
              IF c = EOF THEN ExprAbort("get_name", <<>>, NoInput)
              ELSE ExprRead("get_name", c, <<>>,
                            Append(Pop, [Top EXCEPT !.tok = Top.tok \o Upper(look)]))
       ELSE ExprStep("get_name", <<>>, Recognized(Top.tok))

\* get_num: one turn of its loop, or the end of the loop.
GetNum ==
    /\ At("get_num", "loop")
    /\ UNCHANGED <<ret, nops>>
    /\ IF IsDigit(look)
       THEN \E c \in ExprStream :
              IF c = EOF THEN ExprAbort("get_num", <<>>, NoInput)
              ELSE ExprRead("get_num", c, <<>>,
                            Append(Pop, [Top EXCEPT !.tok = Top.tok \o look]))
       ELSE ExprStep("get_num", <<>>, Recognized(Top.tok))

\* factor after get_num returned.
FactorNum ==
    /\ At("factor", "num")
    /\ UNCHANGED <<ret, nops>>
    /\ ExprStep("factor", <<Emitln("MOVE", "#" \o Top.tok \o ",D0")>>, Pop)

\* factor after the expression in parentheses returned: match_char(')').
FactorClose ==
    /\ At("factor", "close")
    /\ UNCHANGED <<ret, nops>>
    /\ IF look # ")"
       THEN ExprAbort("factor", <<>>, ") Expected")
       ELSE \E c \in ExprStream :
              IF c = EOF THEN ExprAbort("factor", <<>>, NoInput)
              ELSE ExprRead("factor", c, <<>>, Append(Pop, F("skip_white", "loop")))

\* ident after get_name returned.
Ident ==
    /\ At("ident", "name")
    /\ UNCHANGED <<ret, nops>>
    /\ IF look = "("
       THEN \E c \in ExprStream :
              IF c = EOF THEN ExprAbort("ident", <<>>, NoInput)
              ELSE ExprRead("ident", c, <<>>,
                            Pop \o <<[Top EXCEPT !.pc = "open"], F("skip_white", "loop")>>)
       ELSE ExprStep("ident", <<Emitln("MOVE", Top.tok \o "(PC),D0")>>, Pop)

\* ident after match_char('('): match_char(')').
IdentOpen ==
    /\ At("ident", "open")
    /\ UNCHANGED <<ret, nops>>
    /\ IF look # ")"
       THEN ExprAbort("ident", <<>>, ") Expected")
       ELSE \E c \in ExprStream :
              IF c = EOF THEN ExprAbort("ident", <<>>, NoInput)
              ELSE ExprRead("ident", c, <<>>,
                            Pop \o <<[Top EXCEPT !.pc = "bsr"], F("skip_white", "loop")>>)

\* ident after match_char(')').
IdentBsr ==
    /\ At("ident", "bsr")
    /\ UNCHANGED <<ret, nops>>
    /\ ExprStep("ident", <<Emitln("BSR", Top.tok)>>, Pop)

ExprNext ==
    \/ SkipWhite
    \/ Expression
    \/ ExpressionLoop
    \/ Add
    \/ Subtract
    \/ Term
    \/ TermLoop
    \/ Multiply
    \/ Divide
    \/ Factor
    \/ GetName
    \/ GetNum
    \/ FactorNum
    \/ FactorClose
    \/ Ident
    \/ IdentOpen
    \/ IdentBsr

ExprSpec == ExprInit /\ [][ExprNext]_vars

(***************************************************************************)
(* Reading the output                                                      *)
(***************************************************************************)

\* The labels new_label has returned so far: L0, L1, ... by counter value.
Allocated == {"L" \o ToString(k) : k \in 0 .. lcount - 1}

\* line is the definition line of label l.
Defines(l, line) == line = [tab |-> FALSE, op |-> l, arg |-> ":"]

\* line is a branch line with label l as its operand.
References(l, line) ==
    /\ line.tab
    /\ \/ line.op \in {"BEQ", "BRA", "BGT"} /\ line.arg = l
       \/ line.op = "DBRA" /\ line.arg = "D0," \o l

IsLabelLine(line) == ~line.tab

IsBranchLine(line) == line.tab /\ line.op \in {"BEQ", "BRA", "BGT", "DBRA"}

DefsOf(l) == {i \in 1 .. Len(out) : Defines(l, out[i])}

LoopFns == {"do_while", "do_loop", "do_repeat", "do_for", "do_do"}

Constructs == LoopFns \cup {"do_if"}

\* The frames of the loops whose body is being translated.
LoopFrames == {i \in 1 .. Len(stack) : stack[i].fn \in LoopFns}

InnermostLoop == stack[CHOOSE i \in LoopFrames : \A j \in LoopFrames : j <= i]

(***************************************************************************)
(* C1                                                                      *)
(***************************************************************************)

\* C1: when do_program has completed, no two label-definition lines of the
\* output carry the same name, every label that is the operand of a branch
\* line (BEQ, BRA, BGT, DBRA) is defined by exactly one line of the output,
\* and the labels defined are exactly L0, L1, ... up to the counter; while
\* the translation runs, the labels held by the active constructs are
\* allocated ones (below the counter) and no two constructs hold the same.
C1_LabelsUnique ==
    /\ \A i \in 1 .. Len(stack) :
         stack[i].fn \in Constructs =>
           /\ {stack[i].l1, stack[i].l2} \subseteq Allocated
           /\ \A j \in 1 .. Len(stack) :
                (j # i /\ stack[j].fn \in Constructs) =>
                  {stack[i].l1, stack[i].l2} \cap {stack[j].l1, stack[j].l2} = {}
    /\ status = "done" =>
         /\ \A i, j \in 1 .. Len(out) :
              (IsLabelLine(out[i]) /\ IsLabelLine(out[j]) /\ i # j) => out[i].op # out[j].op
         /\ \A i \in 1 .. Len(out) :
              IsBranchLine(out[i]) =>
                \E l \in Allocated : References(l, out[i]) /\ Cardinality(DefsOf(l)) = 1
         /\ {out[i].op : i \in {j \in 1 .. Len(out) : IsLabelLine(out[j])}} = Allocated

\* C1's case: a completed translation in which a branch refers to a label
\* that is defined only later in the output, and another label is defined
\* before it.
C1_Witness ==
    /\ status = "done"
    /\ lcount >= 2
    /\ \E i, j \in 1 .. Len(out) :
         /\ i < j
         /\ IsBranchLine(out[i])
         /\ IsLabelLine(out[j])
         /\ References(out[j].op, out[i])

(***************************************************************************)
(* C2                                                                      *)
(***************************************************************************)

\* What C2 says a 'b' statement does, as a step from the state in which
\* block dispatches on 'b'.
BreakAsClaimed ==
    IF LoopFrames # {}
    THEN /\ out' = Append(out, Emitln("BRA", InnermostLoop.l2))
         /\ status' = "running"
    ELSE /\ out' = out
         /\ status' = "abort"
         /\ msg' = "No loop to break from"

\* C2 as stated: every 'b' statement dispatched by block emits exactly one
\* 'BRA <exit label of the innermost enclosing loop>' when a loop encloses it
\* (if constructs in between or not), and aborts with 'No loop to break from',
\* emitting nothing, when none does.
C2_Original == [][Dispatch("b") => BreakAsClaimed]_vars

\* C2 as amended: the same, for every 'b' statement that is followed by a
\* character in the input (do_break's match_char reads it first).
C2_Break == [][(Dispatch("b") /\ inp' # inp) => BreakAsClaimed]_vars

\* C2's case: a break inside an if inside a loop has emitted its jump.
C2_Witness ==
    /\ last.op = "do_break"
    /\ status = "running"
    /\ Len(stack) >= 3
    /\ Top.fn = "do_if"
    /\ LoopFrames # {}
    /\ out[Len(out)] = Emitln("BRA", InnermostLoop.l2)

(***************************************************************************)
(* C4                                                                      *)
(***************************************************************************)

\* Label l occurs in no line of out[1 .. n], as a definition or as an operand.
Fresh(l, n) == \A i \in 1 .. n : ~Defines(l, out[i]) /\ ~References(l, out[i])

\* C4: when do_while has returned, the lines it put out are, in order: the
\* definition of its top label, '<condition>', 'BEQ <exit label>', the lines
\* of its body block (out[b1s+1 .. b1e], whatever they are), 'BRA <top
\* label>', the definition of its exit label; top and exit are the two next
\* labels of the counter, distinct and unused before.
C4_WhileShape ==
    ret.fn = "do_while" =>
      LET top == "L" \o ToString(ret.lc0)
          exit == "L" \o ToString(ret.lc0 + 1)
      IN  /\ ret.l1 = top
          /\ ret.l2 = exit
          /\ top # exit
          /\ Fresh(top, ret.at)
          /\ Fresh(exit, ret.at)
          /\ SubSeq(out, ret.at + 1, ret.at + 3)
               = <<PostLabel(top), Emitln("<condition>", ""), Emitln("BEQ", exit)>>
          /\ ret.b1s = ret.at + 3
          /\ ret.b1e >= ret.b1s
          /\ SubSeq(out, ret.b1e + 1, ret.b1e + 2)
               = <<Emitln("BRA", top), PostLabel(exit)>>
          /\ ret.end = ret.b1e + 2
          /\ ret.blk1 = exit

\* C4's case: a do_while has just returned whose body held a break and a
\* nested construct.
C4_Witness ==
    /\ last.op = "do_while:end"
    /\ status = "running"
    /\ ret.fn = "do_while"
    /\ \E i \in ret.b1s + 1 .. ret.b1e : out[i] = Emitln("BRA", ret.l2)
    /\ \E i \in ret.b1s + 1 .. ret.b1e : IsLabelLine(out[i])

(***************************************************************************)
(* C6                                                                      *)
(***************************************************************************)

\* The lines of out that the construct of ret put out itself: those between
\* its entry and its return that are not lines of a block it called.
OwnLines ==
    {i \in ret.at + 1 .. ret.end :
        /\ ~(ret.b1s < i /\ i <= ret.b1e)
        /\ ~(ret.hasElse /\ ret.b2s < i /\ i <= ret.b2e)}

BodyLines == {i \in ret.at + 1 .. ret.end : i \notin OwnLines}

\* C6 as stated: each label of a construct that has returned is defined and
\* is referenced by lines the construct put out itself.
C6_Original ==
    ret.fn \in Constructs =>
      \A l \in {ret.l1, ret.l2} :
        /\ \E i \in OwnLines : Defines(l, out[i])
        /\ \E i \in OwnLines : References(l, out[i])

\* C6 as amended: each label of a construct that has returned is defined by
\* exactly one line, which the construct put out itself; the construct
\* itself references every label of if, while and for and the top label of
\* loop, repeat and do; the exit label of loop, repeat and do is referenced
\* by no line of the construct itself: the only lines that reference it are
\* the 'BRA' lines of break statements in its body.
C6_Labels ==
    ret.fn \in Constructs =>
      /\ \A l \in {ret.l1, ret.l2} :
           /\ Cardinality(DefsOf(l)) = 1
           /\ DefsOf(l) \subseteq OwnLines
      /\ \E i \in OwnLines : References(ret.l1, out[i])
      /\ ret.fn \in {"do_if", "do_while", "do_for"} =>
           \E i \in OwnLines : References(ret.l2, out[i])
      /\ ret.fn \in {"do_loop", "do_repeat", "do_do"} =>
           \A i \in 1 .. Len(out) :
             References(ret.l2, out[i]) =>
               i \in BodyLines /\ out[i] = Emitln("BRA", ret.l2)

\* C6's case: a do_loop has returned whose body held no break: its exit
\* label is defined and no line refers to it.
C6_Witness ==
    /\ ret.fn = "do_loop"
    /\ ret.b1e > ret.b1s
    /\ Cardinality(DefsOf(ret.l2)) = 1
    /\ \A i \in 1 .. Len(out) : ~References(ret.l2, out[i])

(***************************************************************************)
(* C7                                                                      *)
(***************************************************************************)

\* C7: when do_do has returned from a body that 'e' ended, that 'e' has been
\* consumed: one character was read after the block ended, and it is the
\* lookahead.
C7_DoConsumesEnd ==
    (ret.fn = "do_do" /\ last.op = "do_do:end" /\ inp[ret.p1] = "e") =>
      (ret.p2 = ret.p1 + 1 /\ Len(inp) = ret.p2 /\ look = inp[ret.p2])

(***************************************************************************)
(* C8                                                                      *)
(***************************************************************************)

\* The segments block dispatches a statement to.
StatementOps ==
    {"other", "do_break", "do_if", "do_while", "do_loop", "do_repeat", "do_for", "do_do"}

\* C8 as stated: 'l' ends only the then-block of an if and 'u' only the body
\* of a repeat.
C8_Original ==
    /\ blkEnd.look = "l" => blkEnd.caller = "do_if:then"
    /\ blkEnd.look = "u" => blkEnd.caller = "do_repeat"

\* C8 as amended: the characters that end a block are 'e', 'l' and 'u' for
\* every caller of block: no block dispatches a statement on one of them,
\* every return of block is on one of them, and a block that 'l' or 'u' has
\* ended in the body of while, loop or for, or at the top level, is followed
\* by the abort of the caller's match ('e Expected', 'End Expected').
C8_Terminators ==
    /\ last.op \in StatementOps => last.look \notin {"e", "l", "u"}
    /\ blkEnd.caller # "none" => blkEnd.look \in {"e", "l", "u"}
    /\ (last.op \in {"do_while:end", "do_loop:end", "do_for:end"}
          /\ blkEnd.look \in {"l", "u"})
         => (status = "abort" /\ msg = "e Expected")
    /\ (last.op = "do_program:end" /\ blkEnd.look \in {"l", "u"})
         => (status = "abort" /\ msg = "End Expected")

\* C8's case: 'l' has ended the body of a while.
C8_Witness ==
    /\ blkEnd.caller = "do_while"
    /\ blkEnd.look = "l"
    /\ last.op = "do_while:end"

(***************************************************************************)
(* C9                                                                      *)
(***************************************************************************)

\* C9: block takes the fallback (other) only for a name that no '=' follows,
\* and a name that '=' follows does not end the translation with 'Name
\* Expected'.
C9_Assignment ==
    /\ (last.op = "other" /\ status = "running") => look # "="
    /\ (status = "abort" /\ msg = "Name Expected" /\ last.op = "other") => look # "="

(***************************************************************************)
(* C10                                                                     *)
(***************************************************************************)

\* C10: when do_if has returned: label1 is the label of the counter on
\* entry; the lines are '<condition>', 'BEQ label1', the then-block's lines;
\* with an else part, label2 is the label of the counter as the then-block
\* ended, and the lines go on 'BRA label2', 'label1:', the else-block's
\* lines, 'label2:'; without, no label was taken after the first (the
\* counter on return is the one the then-block left) and the last line is
\* 'label1:'.  The break target of both blocks is the one do_if received.
C10_IfShape ==
    ret.fn = "do_if" =>
      LET label1 == "L" \o ToString(ret.lc0)
          label2 == "L" \o ToString(ret.lc1)
      IN  /\ ret.l1 = label1
          /\ ret.lcb = ret.lc0 + 1
          /\ SubSeq(out, ret.at + 1, ret.at + 2)
               = <<Emitln("<condition>", ""), Emitln("BEQ", label1)>>
          /\ ret.b1s = ret.at + 2
          /\ ret.b1e >= ret.b1s
          /\ ret.blk1 = ret.arg
          /\ IF ret.hasElse
             THEN /\ ret.l2 = label2
                  /\ label2 # label1
                  /\ Fresh(label2, ret.b1e)
                  /\ ret.lc2 = ret.lc1 + 1
                  /\ SubSeq(out, ret.b1e + 1, ret.b1e + 2)
                       = <<Emitln("BRA", label2), PostLabel(label1)>>
                  /\ ret.b2s = ret.b1e + 2
                  /\ ret.b2e >= ret.b2s
                  /\ ret.blk2 = ret.arg
                  /\ out[ret.b2e + 1] = PostLabel(label2)
                  /\ ret.end = ret.b2e + 1
             ELSE /\ ret.l2 = label1
                  /\ ret.lce = ret.lc1
                  /\ out[ret.b1e + 1] = PostLabel(label1)
                  /\ ret.end = ret.b1e + 1

\* C10's case: a do_if with an else part has returned inside a loop, so the
\* break target it received is a label.
C10_Witness ==
    /\ last.op = "do_if:end"
    /\ status = "running"
    /\ ret.fn = "do_if"
    /\ ret.hasElse
    /\ ret.arg # ""

(***************************************************************************)
(* C3                                                                      *)
(***************************************************************************)

\* Inputs of C3: a well-formed expression followed by one space, the last
\* character of the input.
TrailingSpaceInputs ==
    {<<"1", "+", "2", " ">>, <<"1", " ">>, <<"-", "1", " ">>}

\* C3: on an input that is a well-formed expression followed by one space
\* and nothing more, the expression translator ends by returning, not by a
\* panic, and for '1+2 ' the output is the four lines of the sum.
C3_TrailingSpace ==
    (inp \in TrailingSpaceInputs /\ status # "running") =>
      /\ status = "done"
      /\ inp = <<"1", "+", "2", " ">> =>
           out = <<Emitln("MOVE", "#1,D0"), Emitln("MOVE", "D0,-(SP)"),
                   Emitln("MOVE", "#2,D0"), Emitln("ADD", "(SP)+,D0")>>

(***************************************************************************)
(* C5                                                                      *)
(***************************************************************************)

\* A line that pops the operand stack: its operand starts with '(SP)+'.
IsPop(line) == line.tab /\ line.arg \in {"(SP)+,D0", "(SP)+,D1"}

IsPush(line) == line = [tab |-> TRUE, op |-> "MOVE", arg |-> "D0,-(SP)"]

Pushes(a, b) == Cardinality({i \in a .. b : IsPush(out[i])})

Pops(a, b) == Cardinality({i \in a .. b : IsPop(out[i])})

\* C5: when a call of expression (or of term) has returned, the lines it put
\* out hold as many pushes as operators were matched during the call, and as
\* many pops; among those lines every push has its pop after it (from any
\* line of the call to its end the pops are at least the pushes); and in
\* every prefix of the output the pops are at most the pushes.
C5_PushPop ==
    /\ \A n \in 0 .. Len(out) : Pops(1, n) <= Pushes(1, n)
    /\ ret.fn \in {"expression", "term"} =>
         /\ Pushes(ret.at + 1, ret.end) = ret.ops
         /\ Pops(ret.at + 1, ret.end) = ret.ops
         /\ \A n \in ret.at + 1 .. ret.end : Pops(n, ret.end) >= Pushes(n, ret.end)
         /\ \A n \in ret.at .. ret.end : Pops(ret.at + 1, n) <= Pushes(ret.at + 1, n)

\* C5's case: the driver's call of expression has returned after a leading
\* sign and a multiplication or division were applied.
C5_Witness ==
    /\ status = "done"
    /\ ret.fn = "expression"
    /\ ret.ops >= 2
    /\ out[1] = Emitln("CLR", "D0")
    /\ \E i \in 1 .. Len(out) : out[i].op \in {"MULS", "DIVS"}

(***************************************************************************)
(* C11                                                                     *)
(***************************************************************************)

\* Either driver is run: Cradle::new and do_program of controls.rs, or
\* Cradle::new and expression of cradle.rs.  The translator is one thread
\* that takes its next step whenever it has one.
RunInit == Init \/ ExprInit

RunNext == Next \/ ExprNext

RunSpec == RunInit /\ [][RunNext]_vars /\ WF_vars(RunNext)

\* The panics of the translator: a mismatch (expected), a break with no
\* target, and get_char on an exhausted input.
AbortMessages ==
    {"Name Expected", "Integer Expected", "End Expected", "e Expected",
     "u Expected", "= Expected", ") Expected", "No loop to break from", NoInput}

\* A loop is about to take another turn: the statement loop of block, the
\* operator loops of expression and of term, and the character loops of
\* skip_white, get_name and get_num.
LoopTurn ==
    /\ Running
    /\ Len(stack) > 0
    /\ \/ Top.pc \in BlockPcs /\ ~IsTerminator(look)
       \/ Top.fn = "expression" /\ Top.pc = "loop" /\ IsAddop(look)
       \/ Top.fn = "term" /\ Top.pc = "loop" /\ IsMulop(look)
       \/ Top.fn = "skip_white" /\ IsWhite(look)
       \/ Top.fn = "get_name" /\ IsAlphanumeric(look)
       \/ Top.fn = "get_num" /\ IsDigit(look)

\* C11: every translation ends, by the driver's return or by a panic
\* (mismatch, missing break target, input exhausted); every turn of the
\* statement loop of block and of the operator loops of expression and term
\* (and of the character loops) reads one input character or panics; and no
\* step at all moves the input cursor back.
C11_Terminates ==
    /\ <>(status \in {"done", "abort"})
    /\ [](status = "abort" => msg \in AbortMessages)
    /\ [][LoopTurn => (Len(inp') = Len(inp) + 1 \/ status' = "abort")]_vars
    /\ [][Len(inp') >= Len(inp)]_vars

\* C11's case: do_program has returned after its block took several turns,
\* one of them a loop construct whose own block took a turn.
C11_Witness ==
    /\ status = "done"
    /\ last.op = "do_program:end"
    /\ Len(inp) >= 5
    /\ lcount >= 2
    /\ \E i \in 1 .. Len(out) : out[i].tab /\ out[i].op = "BRA"

====
